---- MODULE Spec2Model ----
(***************************************************************************)
(* Model of tennis_elo_bot.py (class TennisEloBot): rating-table loading,  *)
(* player-name normalisation and resolution, surface classification,       *)
(* de-duplication, differential ranking and the daily run.                 *)
(*                                                                         *)
(* A Python str is a sequence of one-character strings; the empty          *)
(* sequence is both "" and a missing value (None / absent key), which the  *)
(* code never tells apart: every use is guarded by `not x`.                *)
(***************************************************************************)
EXTENDS Integers, Sequences, FiniteSets, TLC

VARIABLES pc,
          player_name, tour, tournament_name, ret, found_by,
          row, nread, atp_elo, wta_elo,
          ODDS_API_KEY, TENNIS_API_KEY,
          all_matches, unique_matches, analyzed_matches, sent

vars == <<pc, player_name, tour, tournament_name, ret, found_by,
          row, nread, atp_elo, wta_elo,
          ODDS_API_KEY, TENNIS_API_KEY,
          all_matches, unique_matches, analyzed_matches, sent>>

argvars == <<player_name, tour, tournament_name, ret, found_by>>
loadvars == <<row, nread>>
tablevars == <<atp_elo, wta_elo>>
runvars == <<ODDS_API_KEY, TENNIS_API_KEY, all_matches, unique_matches,
             analyzed_matches, sent>>

(***************************************************************************)
(* Bounds                                                                  *)
(***************************************************************************)
\* longest raw name handed to normalize_player_name
MaxLen == 3
\* most fragments a tournament name is assembled from
MaxParts == 2
\* most rows read from one rating file
MaxRows == 2
\* most fragments a raw player name is assembled from
MaxNameParts == 3
\* most players in the ATP table a name is resolved against
MaxKeys == 2
\* most matches the two sources return together in one run
MaxMatches == 3

(***************************************************************************)
(* Python str operations                                                   *)
(***************************************************************************)
UpperChars == <<"A","B","C","D","E","F","G","H","I","J","K","L","M",
                "N","O","P","Q","R","S","T","U","V","W","X","Y","Z">>
LowerChars == <<"a","b","c","d","e","f","g","h","i","j","k","l","m",
                "n","o","p","q","r","s","t","u","v","w","x","y","z">>

\* characters str.strip() and str.split() treat as whitespace
Whitespace == {" ", "\t", "\n"}

LowerMap ==
  [c \in {UpperChars[i] : i \in 1..Len(UpperChars)} |->
     LowerChars[CHOOSE i \in 1..Len(UpperChars) : UpperChars[i] = c]]

LowerChar(c) == IF c \in DOMAIN LowerMap THEN LowerMap[c] ELSE c

\* str.lower()
Lower(s) == [i \in 1..Len(s) |-> LowerChar(s[i])]

RECURSIVE LStrip(_)
LStrip(s) ==
  IF s = <<>> THEN s
  ELSE IF Head(s) \in Whitespace THEN LStrip(Tail(s)) ELSE s

RECURSIVE RStrip(_)
RStrip(s) ==
  IF s = <<>> THEN s
  ELSE IF s[Len(s)] \in Whitespace THEN RStrip(SubSeq(s, 1, Len(s) - 1)) ELSE s

\* str.strip()
Strip(s) == RStrip(LStrip(s))

\* str.replace(old, new) for a one-character old
RECURSIVE Replace(_, _, _)
Replace(s, old, new) ==
  IF s = <<>> THEN <<>>
  ELSE (IF Head(s) = old THEN new ELSE <<Head(s)>>) \o Replace(Tail(s), old, new)

\* `sub in s` on two str
Contains(sub, s) ==
  \E i \in 0..(Len(s) - Len(sub)) : SubSeq(s, i + 1, i + Len(sub)) = sub

\* str.split(): maximal runs of non-whitespace characters
RECURSIVE SplitFrom(_, _)
SplitFrom(s, cur) ==
  IF s = <<>> THEN (IF cur = <<>> THEN <<>> ELSE <<cur>>)
  ELSE IF Head(s) \in Whitespace
       THEN (IF cur = <<>> THEN <<>> ELSE <<cur>>) \o SplitFrom(Tail(s), <<>>)
       ELSE SplitFrom(Tail(s), Append(cur, Head(s)))

Split(s) == SplitFrom(s, <<>>)

\* str.upper()
UpperMap ==
  [c \in {LowerChars[i] : i \in 1..Len(LowerChars)} |->
     UpperChars[CHOOSE i \in 1..Len(LowerChars) : LowerChars[i] = c]]

UpperChar(c) == IF c \in DOMAIN UpperMap THEN UpperMap[c] ELSE c

Upper(s) == [i \in 1..Len(s) |-> UpperChar(s[i])]

\* concatenation of a sequence of str
RECURSIVE Concat(_)
Concat(parts) == IF parts = <<>> THEN <<>> ELSE Head(parts) \o Concat(Tail(parts))

\* all str of length at most n over the alphabet A
StrUpTo(A, n) == UNION {[1..k -> A] : k \in 0..n}

(***************************************************************************)
(* normalize_player_name                                                   *)
(***************************************************************************)
normalize_player_name(name) ==
  IF name = <<>> THEN <<>>
  ELSE Replace(Replace(Replace(Strip(Lower(name)), ".", <<>>), "-", <<" ">>), "'", <<>>)

(***************************************************************************)
(* Tour values, as the match sources produce them                          *)
(***************************************************************************)
ATP == <<"A","T","P">>
WTA == <<"W","T","A">>
Unknown == <<"U","n","k","n","o","w","n">>

(***************************************************************************)
(* get_surface_from_tournament                                             *)
(***************************************************************************)
clay_keywords == <<
  <<"r","o","l","a","n","d">>,
  <<"g","a","r","r","o","s">>,
  <<"f","r","e","n","c","h">>,
  <<"r","o","m","e">>,
  <<"m","a","d","r","i","d">>,
  <<"m","o","n","t","e"," ","c","a","r","l","o">>,
  <<"b","a","r","c","e","l","o","n","a">>,
  <<"c","l","a","y">>,
  <<"t","e","r","r","e">>,
  <<"b","a","t","t","u","e">>,
  <<"h","a","m","b","u","r","g">>,
  <<"b","a","s","t","a","d">>,
  <<"g","s","t","a","a","d">>,
  <<"u","m","a","g">>,
  <<"b","u","c","h","a","r","e","s","t">>,
  <<"m","a","r","r","a","k","e","c","h">>,
  <<"e","s","t","o","r","i","l">>,
  <<"m","u","n","i","c","h">>,
  <<"h","o","u","s","t","o","n">> >>

grass_keywords == <<
  <<"w","i","m","b","l","e","d","o","n">>,
  <<"q","u","e","e","n","s">>,
  <<"h","a","l","l","e">>,
  <<"e","a","s","t","b","o","u","r","n","e">>,
  <<"g","r","a","s","s">>,
  <<"g","a","z","o","n">>,
  <<"h","e","r","t","o","g","e","n","b","o","s","c","h">>,
  <<"m","a","l","l","o","r","c","a">>,
  <<"b","a","d"," ","h","o","m","b","u","r","g">>,
  <<"n","e","w","p","o","r","t">> >>

\* any(keyword in s for keyword in keywords)
AnyKeywordIn(keywords, s) ==
  \E k \in 1..Len(keywords) : Contains(keywords[k], s)

\* mutant: grass keywords checked before clay keywords
get_surface_grass_first(name) ==
  IF name = <<>> THEN "hard"
  ELSE LET tournament_lower == Lower(name) IN
       IF AnyKeywordIn(grass_keywords, tournament_lower) THEN "grass"
       ELSE IF AnyKeywordIn(clay_keywords, tournament_lower) THEN "clay"
       ELSE "hard"

get_surface_from_tournament(name) ==
  IF name = <<>> THEN "hard"
  ELSE LET tournament_lower == Lower(name) IN
       IF AnyKeywordIn(clay_keywords, tournament_lower) THEN "clay"
       ELSE IF AnyKeywordIn(grass_keywords, tournament_lower) THEN "grass"
       ELSE "hard"

(***************************************************************************)
(* load_elo_data                                                           *)
(*                                                                         *)
(* A cell of a DataFrame row is NaN (missing; a column the file lacks      *)
(* reads the same, since row.get's default is the overall cell or 1500),   *)
(* a number, or a str that float() rejects.  Ratings are integers here.    *)
(***************************************************************************)
NaN == [kind |-> "nan", val |-> 0]
BadStr == [kind |-> "str", val |-> 0]
Num(v) == [kind |-> "num", val |-> v]
NaNName == [kind |-> "nan", val |-> <<>>]
Name(s) == [kind |-> "str", val |-> s]

\* pd.notna
notna(cell) == cell.kind # "nan"

\* float(cell) raises ValueError on a str that is not a number
FloatRaises(cell) == cell.kind = "str"

DefaultElo == 1500

default_record == [hard |-> DefaultElo, clay |-> DefaultElo,
                   grass |-> DefaultElo, overall |-> DefaultElo]

\* float(surface) if notna(surface) else float(overall) if notna(overall) else 1500.0
SurfaceElo(surface_elo, overall_elo) ==
  IF notna(surface_elo) THEN surface_elo.val
  ELSE IF notna(overall_elo) THEN overall_elo.val ELSE DefaultElo

\* the dict literal of lines 47-52 raises when a float() it evaluates does
RowRaises(r) ==
  \/ (notna(r.Elo) /\ FloatRaises(r.Elo))
  \/ (notna(r.hElo) /\ FloatRaises(r.hElo))
  \/ (notna(r.cElo) /\ FloatRaises(r.cElo))
  \/ (notna(r.gElo) /\ FloatRaises(r.gElo))

RowRecord(r) ==
  [overall |-> IF notna(r.Elo) THEN r.Elo.val ELSE DefaultElo,
   hard |-> SurfaceElo(r.hElo, r.Elo),
   clay |-> SurfaceElo(r.cElo, r.Elo),
   grass |-> SurfaceElo(r.gElo, r.Elo)]

\* str(row['Player']).lower().strip()
RowKey(r) == Strip(Lower(r.Player.val))

\* a table is a dict in insertion order: a sequence of (name, elo) items
HasKey(table, key) == \E i \in 1..Len(table) : table[i].name = key

GetItem(table, key) == table[CHOOSE i \in 1..Len(table) : table[i].name = key].elo

\* table[key] = rec: an existing key keeps its position
SetItem(table, key, rec) ==
  IF HasKey(table, key)
  THEN [i \in 1..Len(table) |->
          IF table[i].name = key THEN [name |-> key, elo |-> rec] ELSE table[i]]
  ELSE Append(table, [name |-> key, elo |-> rec])

NoRow == [file |-> "none", Player |-> NaNName, Elo |-> NaN,
          hElo |-> NaN, cElo |-> NaN, gElo |-> NaN]

(***************************************************************************)
(* find_player_elo                                                         *)
(***************************************************************************)
\* a value that is not a str and not falsy (a JSON number; for a tour also
\* None): calling a str method on it raises AttributeError
NonStr == <<"non-str">>

\* mutant: the tour compared without upper()
SelectTableCaseSensitive(t, atp, wta) == IF t = ATP THEN atp ELSE wta

\* self.atp_elo if tour.upper() == 'ATP' else self.wta_elo
SelectTable(t, atp, wta) == IF Upper(t) = ATP THEN atp ELSE wta

\* [part for part in normalized_name.split() if len(part) > 1]
LongPart(part) == Len(part) > 1
NameParts(normalized_name) == SelectSeq(Split(normalized_name), LongPart)

\* rule 2, line 112
ContainmentTest(normalized_name, stored_name) ==
  Contains(normalized_name, stored_name) \/ Contains(stored_name, normalized_name)

\* rule 3, line 120
AllPartsTest(name_parts, stored_name) ==
  \A k \in 1..Len(name_parts) : Contains(name_parts[k], stored_name)

\* rule 4, line 129
LastNameTest(last_name, stored_name) ==
  \/ Contains(last_name, stored_name)
  \/ \E k \in 1..Len(Split(stored_name)) : Contains(last_name, Split(stored_name)[k])

\* indices of the items of the table, in iteration order, passing a test
ContainmentHits(table, normalized_name) ==
  {i \in 1..Len(table) : ContainmentTest(normalized_name, table[i].name)}
AllPartsHits(table, name_parts) ==
  {i \in 1..Len(table) : AllPartsTest(name_parts, table[i].name)}
LastNameHits(table, last_name) ==
  {i \in 1..Len(table) : LastNameTest(last_name, table[i].name)}

\* mutant: the last item that passes the test
Last(hits) == CHOOSE i \in hits : \A j \in hits : i >= j

\* the first item a `for ... in elo_data.items()` loop returns from
First(hits) == CHOOSE i \in hits : \A j \in hits : i <= j

\* mutant: last names of three characters are looked up too
LongerThanTwo(last_name) == Len(last_name) > 2

\* len(last_name) > 3, line 127
LongLastName(last_name) == Len(last_name) > 3

\* mutant: the containment rule tried before the exact rule
CascadeContainmentFirst(normalized_name, elo_data) ==
  IF ContainmentHits(elo_data, normalized_name) # {}
  THEN [rule |-> "containment",
        elo |-> elo_data[First(ContainmentHits(elo_data, normalized_name))].elo]
  ELSE [rule |-> "default", elo |-> default_record]

\* the cascade of lines 105-135 on a non-empty raw name: the rule that
\* returns, and the record it returns
Cascade(normalized_name, elo_data) ==
  LET name_parts == NameParts(normalized_name)
      last_name == name_parts[Len(name_parts)]
  IN IF HasKey(elo_data, normalized_name)
     THEN [rule |-> "exact", elo |-> GetItem(elo_data, normalized_name)]
     ELSE IF ContainmentHits(elo_data, normalized_name) # {}
     THEN [rule |-> "containment",
           elo |-> elo_data[First(ContainmentHits(elo_data, normalized_name))].elo]
     ELSE IF Len(name_parts) >= 2 /\ AllPartsHits(elo_data, name_parts) # {}
     THEN [rule |-> "words",
           elo |-> elo_data[First(AllPartsHits(elo_data, name_parts))].elo]
     ELSE IF /\ name_parts # <<>>
             /\ LongLastName(last_name)
             /\ LastNameHits(elo_data, last_name) # {}
     THEN [rule |-> "last_name",
           elo |-> elo_data[First(LastNameHits(elo_data, last_name))].elo]
     ELSE [rule |-> "default", elo |-> default_record]

\* the rule find_player_elo returns from, and its record
Resolve(name, t, atp, wta) ==
  IF name = <<>> THEN [rule |-> "empty", elo |-> default_record]
  ELSE Cascade(normalize_player_name(name), SelectTable(t, atp, wta))

\* mutant: the short-circuit taken on an empty normalized name too
find_player_elo_guard_normalized(name, t, atp, wta) ==
  IF normalize_player_name(name) = <<>> THEN default_record
  ELSE Cascade(normalize_player_name(name), SelectTable(t, atp, wta)).elo

\* mutant: no short-circuit on an empty raw name
find_player_elo_no_guard(name, t, atp, wta) ==
  Cascade(normalize_player_name(name), SelectTable(t, atp, wta)).elo

find_player_elo(name, t, atp, wta) == Resolve(name, t, atp, wta).elo

\* tour.upper() raises AttributeError when tour is not a str; the
\* empty-name return comes first
FindRaises(name, t) == name # <<>> /\ t = NonStr

(***************************************************************************)
(* De-duplication loop of run_daily_analysis, lines 525-545                *)
(*                                                                         *)
(* A match is [player1, player2, tour, tournament]; commence_time is only  *)
(* copied through and is left out.                                         *)
(***************************************************************************)
key1(match) ==
  <<normalize_player_name(match.player1), normalize_player_name(match.player2), match.tour>>
key2(match) ==
  <<normalize_player_name(match.player2), normalize_player_name(match.player1), match.tour>>

\* mutant: only the orientation as given is looked up and remembered
RECURSIVE DedupOneWay(_, _, _)
DedupOneWay(matches, unique, seen) ==
  IF matches = <<>> THEN unique
  ELSE LET match == Head(matches) IN
       IF key1(match) \notin seen
       THEN DedupOneWay(Tail(matches), Append(unique, match), seen \cup {key1(match)})
       ELSE DedupOneWay(Tail(matches), unique, seen)

RECURSIVE DedupLoop(_, _, _)
DedupLoop(matches, unique, seen) ==
  IF matches = <<>> THEN unique
  ELSE LET match == Head(matches) IN
       IF key1(match) \notin seen /\ key2(match) \notin seen
       THEN DedupLoop(Tail(matches), Append(unique, match),
                      seen \cup {key1(match), key2(match)})
       ELSE DedupLoop(Tail(matches), unique, seen)

(***************************************************************************)
(* calculate_elo_differences                                               *)
(***************************************************************************)
\* tournament_name.lower() raises when the tournament is not a str
SurfaceRaises(name) == name = NonStr

\* the try body of lines 335-359 raises
MatchRaises(match) ==
  \/ SurfaceRaises(match.tournament)
  \/ FindRaises(match.player1, match.tour)
  \/ FindRaises(match.player2, match.tour)

\* not match.get('player1') or not match.get('player2')
PlayersMissing(match) == match.player1 = <<>> \/ match.player2 = <<>>

\* elo_data.get(surface, elo_data.get('overall', 1500))
SurfaceField(elo, surface) ==
  IF surface \in DOMAIN elo THEN elo[surface]
  ELSE IF "overall" \in DOMAIN elo THEN elo.overall ELSE DefaultElo

\* mutant: the signed difference player1 - player2
SignedDiff(x) == x

\* abs
Abs(x) == IF x >= 0 THEN x ELSE -x

\* the dict appended at lines 349-359
Analysis(match, atp, wta) ==
  LET surface == get_surface_from_tournament(match.tournament)
      player1_elo == SurfaceField(find_player_elo(match.player1, match.tour, atp, wta), surface)
      player2_elo == SurfaceField(find_player_elo(match.player2, match.tour, atp, wta), surface)
  IN [player1 |-> match.player1, player1_elo |-> player1_elo,
      player2 |-> match.player2, player2_elo |-> player2_elo,
      surface |-> surface,
      elo_difference |-> Abs(player1_elo - player2_elo),
      tour |-> match.tour, tournament |-> match.tournament]

\* mutant: a failing match ends the loop instead of being skipped
RECURSIVE AnalyseUntilFailure(_, _, _)
AnalyseUntilFailure(matches, atp, wta) ==
  IF matches = <<>> THEN <<>>
  ELSE LET match == Head(matches) IN
       IF PlayersMissing(match) THEN AnalyseUntilFailure(Tail(matches), atp, wta)
       ELSE IF MatchRaises(match) THEN <<>>
       ELSE <<Analysis(match, atp, wta)>> \o AnalyseUntilFailure(Tail(matches), atp, wta)

\* the loop of lines 333-364: match_analyses
RECURSIVE AnalyseAll(_, _, _)
AnalyseAll(matches, atp, wta) ==
  IF matches = <<>> THEN <<>>
  ELSE LET match == Head(matches) IN
       IF PlayersMissing(match) \/ MatchRaises(match)
       THEN AnalyseAll(Tail(matches), atp, wta)
       ELSE <<Analysis(match, atp, wta)>> \o AnalyseAll(Tail(matches), atp, wta)

\* mutant: an element is placed before the elements of equal difference
RECURSIVE InsertBeforeEqual(_, _)
InsertBeforeEqual(sorted, x) ==
  IF sorted = <<>> THEN <<x>>
  ELSE IF Head(sorted).elo_difference > x.elo_difference
       THEN <<Head(sorted)>> \o InsertBeforeEqual(Tail(sorted), x)
       ELSE <<x>> \o sorted

\* stable insertion into a list in descending order of elo_difference
RECURSIVE InsertDesc(_, _)
InsertDesc(sorted, x) ==
  IF sorted = <<>> THEN <<x>>
  ELSE IF Head(sorted).elo_difference >= x.elo_difference
       THEN <<Head(sorted)>> \o InsertDesc(Tail(sorted), x)
       ELSE <<x>> \o sorted

\* sorted(match_analyses, key=lambda x: x['elo_difference'], reverse=True):
\* a stable sort, equal keys keep their order also with reverse=True
RECURSIVE SortedFrom(_, _)
SortedFrom(items, sorted) ==
  IF items = <<>> THEN sorted
  ELSE SortedFrom(Tail(items), InsertDesc(sorted, Head(items)))

calculate_elo_differences(matches, atp, wta) ==
  SortedFrom(AnalyseAll(matches, atp, wta), <<>>)

(***************************************************************************)
(* format_telegram_message: the entries of the ranking message             *)
(***************************************************************************)
\* matches[:20]
MaxShown == 20

FirstN(matches, n) == SubSeq(matches, 1, IF Len(matches) < n THEN Len(matches) ELSE n)

\* mutant: boundaries moved to >= 200, >= 100, >= 50
IconInclusive(elo_difference) ==
  IF elo_difference >= 200 THEN "fire"
  ELSE IF elo_difference >= 100 THEN "bolt"
  ELSE IF elo_difference >= 50 THEN "chart"
  ELSE "scales"

\* the icon of lines 386-394: fire = very large gap, bolt = large gap,
\* chart = medium gap, scales = small gap
Icon(elo_difference) ==
  IF elo_difference > 200 THEN "fire"
  ELSE IF elo_difference > 100 THEN "bolt"
  ELSE IF elo_difference > 50 THEN "chart"
  ELSE "scales"

Entry(match) ==
  [icon |-> Icon(match.elo_difference),
   tour |-> match.tour,
   higher_elo_player |-> IF match.player1_elo > match.player2_elo
                         THEN match.player1 ELSE match.player2,
   lower_elo_player |-> IF match.player1_elo > match.player2_elo
                        THEN match.player2 ELSE match.player1,
   surface |-> match.surface,
   elo_difference |-> match.elo_difference,
   tournament |-> match.tournament]

format_telegram_message(matches) ==
  IF matches = <<>> THEN [kind |-> "no_match_today", entries |-> <<>>]
  ELSE [kind |-> "ranking",
        entries |-> [i \in 1..Len(FirstN(matches, MaxShown)) |-> Entry(matches[i])]]

(***************************************************************************)
(* Idle values of the variables a specification does not use               *)
(***************************************************************************)
ArgsIdle ==
  /\ player_name = <<>> /\ tour = ATP /\ tournament_name = <<>> /\ ret = <<>>
  /\ found_by = "none"
LoadIdle == row = NoRow /\ nread = 0
TablesIdle == atp_elo = <<>> /\ wta_elo = <<>>
RunIdle == /\ ODDS_API_KEY = FALSE /\ TENNIS_API_KEY = FALSE
           /\ all_matches = <<>> /\ unique_matches = <<>>
           /\ analyzed_matches = <<>> /\ sent = <<>>

(***************************************************************************)
(* SpecNorm: normalize_player_name applied to every short raw name         *)
(***************************************************************************)
NormAlphabet == {"a", "B", " ", ".", "-", "'"}

InitNorm ==
  /\ pc = "start"
  /\ player_name \in StrUpTo(NormAlphabet, MaxLen)
  /\ tour = ATP /\ tournament_name = <<>> /\ ret = <<>> /\ found_by = "none"
  /\ LoadIdle /\ TablesIdle /\ RunIdle

Normalize ==
  /\ pc = "start"
  /\ ret' = normalize_player_name(player_name)
  /\ pc' = "normalized"
  /\ UNCHANGED <<player_name, tour, tournament_name, found_by,
                 loadvars, tablevars, runvars>>

NextNorm == Normalize

SpecNorm == InitNorm /\ [][NextNorm]_vars

\* C2: normalize_player_name is idempotent: normalising a normalised name
\* gives the same name, for every raw name.
C2_Idempotent ==
  pc = "normalized" => normalize_player_name(ret) = ret

(***************************************************************************)
(* SpecSurface: get_surface_from_tournament applied to tournament names    *)
(* assembled from at most MaxParts fragments                               *)
(***************************************************************************)
TournamentParts == {
  <<"R","o","l","a","n","d">>,
  <<"W","I","M","B","L","E","D","O","N">>,
  <<"H","a","l","l","e">>,
  <<"r","o","m","e">>,
  <<"U","S"," ","O","p","e","n">>,
  <<" ">>,
  <<"C","l","a","y">>,
  <<"G","R","A","S","S">>,
  <<"Q","u","e","e","n","s">>,
  <<"b","a","d">>,
  <<"h","o","m","b","u","r","g">> }

TournamentNames ==
  {Concat(ps) : ps \in UNION {[1..k -> TournamentParts] : k \in 0..MaxParts}}

InitSurface ==
  /\ pc = "start"
  /\ tournament_name \in TournamentNames
  /\ player_name = <<>> /\ tour = ATP /\ ret = <<>> /\ found_by = "none"
  /\ LoadIdle /\ TablesIdle /\ RunIdle

Classify ==
  /\ pc = "start"
  /\ ret' = get_surface_from_tournament(tournament_name)
  /\ pc' = "classified"
  /\ UNCHANGED <<player_name, tour, tournament_name, found_by,
                 loadvars, tablevars, runvars>>

NextSurface == Classify

SpecSurface == InitSurface /\ [][NextSurface]_vars

HasClay(name) == \E k \in 1..Len(clay_keywords) : Contains(clay_keywords[k], Lower(name))
HasGrass(name) == \E k \in 1..Len(grass_keywords) : Contains(grass_keywords[k], Lower(name))

\* C8: the surface is always one of clay, grass, hard; it is clay when the
\* lowercased name holds a clay keyword (even next to a grass keyword),
\* else grass when it holds a grass keyword, else hard; the empty name
\* gives hard; the letter case of the name does not matter.
C8_SurfaceClassification ==
  pc = "classified" =>
    /\ ret \in {"clay", "grass", "hard"}
    /\ (ret = "clay") = HasClay(tournament_name)
    /\ (ret = "grass") = (~HasClay(tournament_name) /\ HasGrass(tournament_name))
    /\ (tournament_name = <<>> => ret = "hard")
    /\ get_surface_from_tournament(Upper(tournament_name)) = ret
    /\ get_surface_from_tournament(Lower(tournament_name)) = ret

\* a name holding both a clay and a grass keyword has been classified
C8_Witness ==
  /\ pc = "classified"
  /\ HasClay(tournament_name) /\ HasGrass(tournament_name)
  /\ ret = "clay"

(***************************************************************************)
(* SpecLoad: load_elo_data reading at most MaxRows rows from each file     *)
(***************************************************************************)
PlayerCells == {NaNName, Name(<<"A","b">>), Name(<<"a","b"," ">>)}

RowCells(file) ==
  [file : {file}, Player : PlayerCells,
   Elo : {NaN, BadStr, Num(1600)},
   hElo : {NaN, BadStr, Num(1700)},
   cElo : {NaN, BadStr, Num(1800)},
   gElo : {NaN, BadStr, Num(1900)}]

\* a row whose Player cell is blank and whose ratings are missing
BlankRow(file) ==
  [file |-> file, Player |-> Name(<<" ">>), Elo |-> NaN,
   hElo |-> NaN, cElo |-> NaN, gElo |-> NaN]

Rows(file) == RowCells(file) \cup {BlankRow(file)}

InitLoad ==
  /\ pc = "load_start"
  /\ row = NoRow /\ nread = 0
  /\ atp_elo = <<>> /\ wta_elo = <<>>
  /\ ArgsIdle /\ RunIdle

\* pd.read_csv(ATP_ELO_FILE) returns a frame or raises
ReadAtpFile ==
  /\ pc = "load_start"
  /\ \E readable \in BOOLEAN : pc' = IF readable THEN "atp_rows" ELSE "loaded"
  /\ UNCHANGED <<row, nread, tablevars, argvars, runvars>>

\* one iteration of the ATP loop, lines 37-52
LoadAtpRow ==
  /\ pc = "atp_rows"
  /\ nread < MaxRows
  /\ \E r \in Rows("ATP") :
       /\ row' = r
       /\ nread' = nread + 1
       /\ IF ~notna(r.Player)
          THEN pc' = pc /\ atp_elo' = atp_elo
          ELSE IF RowRaises(r)
               THEN pc' = "loaded" /\ atp_elo' = atp_elo
               ELSE pc' = pc /\ atp_elo' = SetItem(atp_elo, RowKey(r), RowRecord(r))
  /\ UNCHANGED <<wta_elo, argvars, runvars>>

\* end of the ATP rows, then pd.read_csv(WTA_ELO_FILE)
ReadWtaFile ==
  /\ pc = "atp_rows"
  /\ \E readable \in BOOLEAN : pc' = IF readable THEN "wta_rows" ELSE "loaded"
  /\ nread' = 0
  /\ UNCHANGED <<row, tablevars, argvars, runvars>>

\* one iteration of the WTA loop, lines 58-73
LoadWtaRow ==
  /\ pc = "wta_rows"
  /\ nread < MaxRows
  /\ \E r \in Rows("WTA") :
       /\ row' = r
       /\ nread' = nread + 1
       /\ IF ~notna(r.Player)
          THEN pc' = pc /\ wta_elo' = wta_elo
          ELSE IF RowRaises(r)
               THEN pc' = "loaded" /\ wta_elo' = wta_elo
               ELSE pc' = pc /\ wta_elo' = SetItem(wta_elo, RowKey(r), RowRecord(r))
  /\ UNCHANGED <<atp_elo, argvars, runvars>>

\* end of the WTA rows
LoadDone ==
  /\ pc = "wta_rows"
  /\ pc' = "loaded"
  /\ UNCHANGED <<row, nread, tablevars, argvars, runvars>>

NextLoad == ReadAtpFile \/ LoadAtpRow \/ ReadWtaFile \/ LoadWtaRow \/ LoadDone

SpecLoad == InitLoad /\ [][NextLoad]_vars

\* a cell holds a usable number
Available(cell) == cell.kind = "num"

\* first available of: surface value, overall value, 1500
Fallback(surface_cell, overall_cell) ==
  IF Available(surface_cell) THEN surface_cell.val
  ELSE IF Available(overall_cell) THEN overall_cell.val ELSE 1500

ExpectedRecord(r) ==
  [overall |-> IF Available(r.Elo) THEN r.Elo.val ELSE 1500,
   hard |-> Fallback(r.hElo, r.Elo),
   clay |-> Fallback(r.cElo, r.Elo),
   grass |-> Fallback(r.gElo, r.Elo)]

TableOf(file) == IF file = "ATP" THEN atp_elo ELSE wta_elo

AllPopulated(table) ==
  \A i \in 1..Len(table) :
    /\ DOMAIN table[i].elo = {"hard", "clay", "grass", "overall"}
    /\ \A f \in DOMAIN table[i].elo : table[i].elo[f] \in Nat

RowLoaded(r) ==
  /\ HasKey(TableOf(r.file), RowKey(r))
  /\ GetItem(TableOf(r.file), RowKey(r)) = ExpectedRecord(r)

\* C7: after load_elo_data every record has its four fields, and the row
\* last read, when it names a player, is stored with each field the first
\* available of surface value, overall value, 1500, also when a value of
\* the row is missing or invalid.
C7_LoadFallback ==
  /\ AllPopulated(atp_elo) /\ AllPopulated(wta_elo)
  /\ (row.file # "none" /\ notna(row.Player)) => RowLoaded(row)

\* the part of C7 the code keeps: rows whose values are numbers or missing
LoadFallbackOfMissing ==
  /\ AllPopulated(atp_elo) /\ AllPopulated(wta_elo)
  /\ (row.file # "none" /\ notna(row.Player) /\ ~RowRaises(row)) => RowLoaded(row)

\* a row with overall 1600 and no clay value has been stored with clay 1600
LoadFallbackWitness ==
  /\ row.file = "ATP" /\ notna(row.Player)
  /\ row.Elo = Num(1600) /\ row.cElo = NaN
  /\ HasKey(atp_elo, RowKey(row))
  /\ GetItem(atp_elo, RowKey(row)).clay = 1600

\* a blank Player cell has been stored under the empty name
BlankNameStored ==
  /\ pc = "loaded"
  /\ HasKey(atp_elo, <<>>)
  /\ GetItem(atp_elo, <<>>) = default_record

(***************************************************************************)
(* SpecResolve: find_player_elo on raw names assembled from at most        *)
(* MaxNameParts fragments, against tables load_elo_data can build          *)
(***************************************************************************)
NameFragments == {
  <<"N","a","d","a","l">>,
  <<"L","e","e">>,
  <<"r">>,
  <<" ">>,
  <<".">> }

RawNames ==
  {Concat(ps) : ps \in UNION {[1..k -> NameFragments] : k \in 0..MaxNameParts}}

\* stored names: lowercased and stripped (line 39); a Player cell of
\* blanks is stored under the empty name
StoredNames == <<
  <<"r","a","f","a"," ","n","a","d","a","l">>,
  <<"n","a","d","a","l">>,
  <<"n","a"," ","l","e","e">>,
  <<"r","."," ","n","a","d","a","l">>,
  <<>> >>

\* the record of the k-th stored name in one file: all fields differ
\* between names, between surfaces and between files
StoredRecord(k, base) ==
  [hard |-> base + 10 * k, clay |-> base + 10 * k + 1,
   grass |-> base + 10 * k + 2, overall |-> base + 10 * k + 3]

Injective(f) == \A i, j \in DOMAIN f : f[i] = f[j] => i = j

\* tables of n distinct stored names among the first m, in any order
TablesOf(m, n, base) ==
  {[i \in DOMAIN ks |-> [name |-> StoredNames[ks[i]], elo |-> StoredRecord(ks[i], base)]] :
     ks \in {f \in UNION {[1..k -> 1..m] : k \in 0..n} : Injective(f)}}

\* the WTA table names are resolved against: one player, also in StoredNames
WtaTable == <<[name |-> StoredNames[2], elo |-> StoredRecord(2, 2600)]>>

TourValues == {ATP, WTA, Unknown, <<"a","t","p">>}

InitResolve ==
  /\ pc = "start"
  /\ player_name \in RawNames
  /\ tour \in TourValues
  /\ atp_elo \in TablesOf(Len(StoredNames), MaxKeys, 1600)
  /\ wta_elo = WtaTable
  /\ tournament_name = <<>> /\ ret = <<>> /\ found_by = "none"
  /\ LoadIdle /\ RunIdle

FindPlayerElo ==
  /\ pc = "start"
  /\ ~FindRaises(player_name, tour)
  /\ ret' = find_player_elo(player_name, tour, atp_elo, wta_elo)
  /\ found_by' = Resolve(player_name, tour, atp_elo, wta_elo).rule
  /\ pc' = "found"
  /\ UNCHANGED <<player_name, tour, tournament_name, loadvars, tablevars, runvars>>

NextResolve == FindPlayerElo

SpecResolve == InitResolve /\ [][NextResolve]_vars

elo_data == SelectTable(tour, atp_elo, wta_elo)
normalized_name == normalize_player_name(player_name)

NoRuleMatches ==
  LET table == elo_data
      norm == normalized_name
      parts == NameParts(norm)
  IN /\ ~HasKey(table, norm)
     /\ ContainmentHits(table, norm) = {}
     /\ (Len(parts) >= 2 => AllPartsHits(table, parts) = {})
     /\ (parts # <<>> /\ Len(parts[Len(parts)]) > 3 =>
           LastNameHits(table, parts[Len(parts)]) = {})

\* C3: find_player_elo never fails and returns a record with the fields
\* hard, clay, grass, overall; an empty raw name gives the default record
\* whatever the table holds, and so does a name resolved against an empty
\* table or matched by no rule of the cascade.
C3_AlwaysARecord ==
  /\ (pc = "start" => ~FindRaises(player_name, tour))
  /\ (pc = "found" =>
       /\ DOMAIN ret = {"hard", "clay", "grass", "overall"}
       /\ \A f \in DOMAIN ret : ret[f] \in Nat
       /\ (player_name = <<>> => ret = default_record)
       /\ (elo_data = <<>> => ret = default_record)
       /\ (NoRuleMatches => ret = default_record))

\* an unknown name has been resolved against a non-empty table
C3_Witness ==
  /\ pc = "found"
  /\ player_name # <<>> /\ elo_data # <<>>
  /\ NoRuleMatches
  /\ ret = default_record

\* the empty name has been resolved against a non-empty table
C3_WitnessEmpty ==
  /\ pc = "found" /\ player_name = <<>> /\ elo_data # <<>>
  /\ ret = default_record

\* C4 as stated: whenever the normalized raw name is a key of the selected
\* table, the record returned is the one stored under that key.
C4_ExactAnyName ==
  (pc = "found" /\ HasKey(elo_data, normalized_name)) =>
    ret = GetItem(elo_data, normalized_name)

\* C4 amended: whenever the raw name is not empty and its normalized form is
\* a key of the selected table, the record returned is the one stored under
\* that key, whatever the other keys and their order.
C4_ExactPrecedence ==
  (pc = "found" /\ player_name # <<>> /\ HasKey(elo_data, normalized_name)) =>
    ret = GetItem(elo_data, normalized_name)

\* the name is the second key and the first key contains it
C4_Witness ==
  /\ pc = "found" /\ player_name # <<>>
  /\ Len(elo_data) = 2
  /\ elo_data[2].name = normalized_name
  /\ ContainmentTest(normalized_name, elo_data[1].name)
  /\ ret = elo_data[2].elo

\* C11: on a non-empty raw name, when the exact rule fails and some stored
\* name contains the normalized name or is contained in it, the record of
\* the first such name in insertion order is returned, by the containment
\* rule; the words and last-name rules return only when no stored name
\* passes the containment test.
C11_CascadeOrder ==
  (pc = "found" /\ player_name # <<>>) =>
    LET hits == ContainmentHits(elo_data, normalized_name) IN
    /\ (~HasKey(elo_data, normalized_name) /\ hits # {} =>
          /\ found_by = "containment"
          /\ \E i \in hits : (\A j \in hits : i <= j) /\ ret = elo_data[i].elo)
    /\ (found_by \in {"words", "last_name"} =>
          ~HasKey(elo_data, normalized_name) /\ hits = {})

\* two stored names pass the containment test for a name that is no key,
\* and the record of the first is returned
C11_Witness ==
  /\ pc = "found" /\ player_name # <<>>
  /\ normalized_name # <<>>
  /\ ~HasKey(elo_data, normalized_name)
  /\ ContainmentHits(elo_data, normalized_name) = {1, 2}
  /\ found_by = "containment"
  /\ ret = elo_data[1].elo

\* the words rule has returned
C11_WitnessWords ==
  /\ pc = "found" /\ found_by = "words"
  /\ ContainmentHits(elo_data, normalized_name) = {}

\* the last whitespace-separated token of more than one character
HasLongToken(name) == \E k \in 1..Len(Split(name)) : Len(Split(name)[k]) > 1
LastLongToken(name) ==
  LET tokens == Split(name)
      k == CHOOSE i \in 1..Len(tokens) :
             /\ Len(tokens[i]) > 1
             /\ \A j \in 1..Len(tokens) : Len(tokens[j]) > 1 => j <= i
  IN tokens[k]

\* the stored names that contain a token
Holders(table, token) == {i \in 1..Len(table) : Contains(token, table[i].name)}

\* exact, containment and words rules all fail on a name with a long token
EarlierRulesFail ==
  /\ player_name # <<>>
  /\ ~HasKey(elo_data, normalized_name)
  /\ ContainmentHits(elo_data, normalized_name) = {}
  /\ (Len(NameParts(normalized_name)) >= 2 =>
        AllPartsHits(elo_data, NameParts(normalized_name)) = {})
  /\ HasLongToken(normalized_name)

\* C12: when the exact, containment and words rules fail, the last token of
\* more than one character decides: of length 3 or less, the default record
\* is returned even if a stored name contains it; longer than 3, the record
\* of the first stored name containing it is returned (the default record
\* when there is none).
C12_LastNameRule ==
  (pc = "found" /\ EarlierRulesFail) =>
    LET last == LastLongToken(normalized_name)
        holders == Holders(elo_data, last)
    IN /\ (Len(last) <= 3 => found_by = "default" /\ ret = default_record)
       /\ (Len(last) > 3 /\ holders # {} =>
             /\ found_by = "last_name"
             /\ \E i \in holders : (\A j \in holders : i <= j) /\ ret = elo_data[i].elo)
       /\ (Len(last) > 3 /\ holders = {} => found_by = "default" /\ ret = default_record)

\* two stored names contain the last name, the record of the first is returned
C12_Witness ==
  /\ pc = "found" /\ EarlierRulesFail
  /\ Len(LastLongToken(normalized_name)) > 3
  /\ Holders(elo_data, LastLongToken(normalized_name)) = {1, 2}
  /\ found_by = "last_name"
  /\ ret = elo_data[1].elo

\* a last name of three characters is not looked up although stored
C12_WitnessShort ==
  /\ pc = "found" /\ EarlierRulesFail
  /\ Len(LastLongToken(normalized_name)) = 3
  /\ Holders(elo_data, LastLongToken(normalized_name)) # {}
  /\ ret = default_record

RecordsOf(table) == {table[i].elo : i \in 1..Len(table)}

\* C13: for a non-empty name the lookup is always made, in the ATP table
\* exactly when the upper-cased tour is 'ATP' and in the WTA table for every
\* other tour, 'Unknown' included.
C13_TourSelection ==
  (pc = "found" /\ player_name # <<>>) =>
    /\ found_by \in {"exact", "containment", "words", "last_name", "default"}
    /\ (Upper(tour) = ATP =>
          /\ ret \in RecordsOf(atp_elo) \cup {default_record}
          /\ (HasKey(atp_elo, normalized_name) => ret = GetItem(atp_elo, normalized_name)))
    /\ (Upper(tour) # ATP =>
          /\ ret \in RecordsOf(wta_elo) \cup {default_record}
          /\ (HasKey(wta_elo, normalized_name) => ret = GetItem(wta_elo, normalized_name)))

\* a name stored in both tables, resolved for the tour 'Unknown', gets its
\* WTA record
C13_Witness ==
  /\ pc = "found" /\ tour = Unknown
  /\ HasKey(atp_elo, normalized_name) /\ HasKey(wta_elo, normalized_name)
  /\ ret = GetItem(wta_elo, normalized_name)
  /\ ret # GetItem(atp_elo, normalized_name)

\* the tour 'atp' in lower case selects the ATP table
C13_WitnessLower ==
  /\ pc = "found" /\ tour = <<"a","t","p">>
  /\ HasKey(atp_elo, normalized_name)
  /\ ret = GetItem(atp_elo, normalized_name)

\* a non-empty raw name with an empty normalized form has been resolved
EmptyNormalized == pc = "found" /\ player_name # <<>> /\ normalized_name = <<>>

\* C14 as stated: such a name gets, from a non-empty table, the record of
\* the first key through the containment rule, and the default record only
\* from an empty table.
C14_FirstKeyAlways ==
  EmptyNormalized =>
    /\ (elo_data # <<>> => found_by = "containment" /\ ret = elo_data[1].elo)
    /\ (elo_data = <<>> => ret = default_record)

\* C14 amended: such a name does not take the empty-name return; from a
\* table holding the empty key it gets the record of that key through the
\* exact rule, from any other non-empty table the record of the first key
\* through the containment rule, and the default record only from an empty
\* table.
C14_EmptyNormalizedName ==
  EmptyNormalized =>
    /\ found_by # "empty"
    /\ (HasKey(elo_data, <<>>) =>
          found_by = "exact" /\ ret = GetItem(elo_data, <<>>))
    /\ (elo_data # <<>> /\ ~HasKey(elo_data, <<>>) =>
          found_by = "containment" /\ ret = elo_data[1].elo)
    /\ (elo_data = <<>> => found_by = "default" /\ ret = default_record)
    /\ (ret = default_record => elo_data = <<>>)

\* the name '.' resolved against two stored names gets the first record
C14_Witness ==
  /\ EmptyNormalized
  /\ Len(elo_data) = 2 /\ ~HasKey(elo_data, <<>>)
  /\ found_by = "containment"
  /\ ret = elo_data[1].elo

(***************************************************************************)
(* Spec: run_daily_analysis, on the tables of a finished load and on at    *)
(* most MaxMatches matches returned by the two sources                     *)
(***************************************************************************)
Nadal == <<"N","a","d","a","l">>
nadal_dot == <<"n","a","d","a","l",".">>
Lee == <<"L","e","e">>
Stranger == <<"x">>
Rome == <<"R","o","m","e">>

\* ratings chosen so that the differences 50, 100, 150, 200 and 250 occur
AtpRun == <<
  [name |-> <<"n","a","d","a","l">>,
   elo |-> [hard |-> 1550, clay |-> 1700, grass |-> 1810, overall |-> 1600]],
  [name |-> <<"l","e","e">>,
   elo |-> [hard |-> 1450, clay |-> 1950, grass |-> 1820, overall |-> 1650]] >>

WtaRun == <<
  [name |-> <<"l","e","e">>,
   elo |-> [hard |-> 1600, clay |-> 1550, grass |-> 1830, overall |-> 1610]],
  [name |-> <<"n","a","d","a","l">>,
   elo |-> [hard |-> 1650, clay |-> 1500, grass |-> 1840, overall |-> 1660]] >>

PlayerPairs == { <<Nadal, Lee>>, <<Lee, nadal_dot>>, <<Nadal, Stranger>> }

\* tour and tournament of a match
Fixtures == { <<ATP, <<>> >>, <<ATP, Rome>>, <<WTA, <<>> >> }

MatchOf(pair, t, tournament) ==
  [player1 |-> pair[1], player2 |-> pair[2], tour |-> t, tournament |-> tournament]

\* what get_matches_from_tennis_api can append: tour and tournament are
\* str, a name may be missing
TennisMatches ==
  {MatchOf(pair, fx[1], fx[2]) : pair \in PlayerPairs, fx \in Fixtures}
  \cup {MatchOf(<< <<>>, Lee >>, ATP, <<>>)}

\* what get_matches_from_odds_api can append: the title of a sport is
\* whatever the JSON holds
OddsMatches ==
  TennisMatches \cup
  {MatchOf(pair, ATP, NonStr) : pair \in {<<Nadal, Lee>>, <<Nadal, Stranger>>}}

SeqsUpTo(S, n) == UNION {[1..k -> S] : k \in 0..n}

Init ==
  /\ pc = "run_start"
  /\ ODDS_API_KEY \in BOOLEAN /\ TENNIS_API_KEY \in BOOLEAN
  /\ atp_elo = AtpRun /\ wta_elo = WtaRun
  /\ all_matches = <<>> /\ unique_matches = <<>>
  /\ analyzed_matches = <<>> /\ sent = <<>>
  /\ ArgsIdle /\ LoadIdle

\* lines 486-508: with no key configured the configuration error is sent
CheckConfiguration ==
  /\ pc = "run_start"
  /\ IF ~(ODDS_API_KEY \/ TENNIS_API_KEY)
     THEN /\ sent' = Append(sent, [kind |-> "configuration_error", entries |-> <<>>])
          /\ pc' = "done"
     ELSE /\ sent' = sent
          /\ pc' = "fetch_odds"
  /\ UNCHANGED <<ODDS_API_KEY, TENNIS_API_KEY, all_matches, unique_matches,
                 analyzed_matches, argvars, loadvars, tablevars>>

\* lines 513-516
FetchOdds ==
  /\ pc = "fetch_odds"
  /\ IF ODDS_API_KEY
     THEN \E odds_matches \in SeqsUpTo(OddsMatches, MaxMatches - Len(all_matches)) :
            all_matches' = all_matches \o odds_matches
     ELSE all_matches' = all_matches
  /\ pc' = "fetch_tennis"
  /\ UNCHANGED <<ODDS_API_KEY, TENNIS_API_KEY, unique_matches, analyzed_matches,
                 sent, argvars, loadvars, tablevars>>

\* lines 518-521
FetchTennis ==
  /\ pc = "fetch_tennis"
  /\ IF TENNIS_API_KEY
     THEN \E tennis_matches \in SeqsUpTo(TennisMatches, MaxMatches - Len(all_matches)) :
            all_matches' = all_matches \o tennis_matches
     ELSE all_matches' = all_matches
  /\ pc' = "dedup"
  /\ UNCHANGED <<ODDS_API_KEY, TENNIS_API_KEY, unique_matches, analyzed_matches,
                 sent, argvars, loadvars, tablevars>>

\* mutant: no return after the no-match message
DeduplicateFallThrough ==
  /\ pc = "dedup"
  /\ unique_matches' = DedupLoop(all_matches, <<>>, {})
  /\ IF unique_matches' = <<>>
     THEN sent' = Append(sent, [kind |-> "no_match", entries |-> <<>>])
     ELSE sent' = sent
  /\ pc' = "calculate"
  /\ UNCHANGED <<ODDS_API_KEY, TENNIS_API_KEY, all_matches, analyzed_matches,
                 argvars, loadvars, tablevars>>

\* lines 525-554
Deduplicate ==
  /\ pc = "dedup"
  /\ unique_matches' = DedupLoop(all_matches, <<>>, {})
  /\ IF unique_matches' = <<>>
     THEN /\ sent' = Append(sent, [kind |-> "no_match", entries |-> <<>>])
          /\ pc' = "done"
     ELSE /\ sent' = sent
          /\ pc' = "calculate"
  /\ UNCHANGED <<ODDS_API_KEY, TENNIS_API_KEY, all_matches, analyzed_matches,
                 argvars, loadvars, tablevars>>

\* lines 556-565
Calculate ==
  /\ pc = "calculate"
  /\ analyzed_matches' = calculate_elo_differences(unique_matches, atp_elo, wta_elo)
  /\ IF analyzed_matches' = <<>>
     THEN /\ sent' = Append(sent, [kind |-> "analysis_error", entries |-> <<>>])
          /\ pc' = "done"
     ELSE /\ sent' = sent
          /\ pc' = "format"
  /\ UNCHANGED <<ODDS_API_KEY, TENNIS_API_KEY, all_matches, unique_matches,
                 argvars, loadvars, tablevars>>

\* lines 567-578
FormatAndSend ==
  /\ pc = "format"
  /\ sent' = Append(sent, format_telegram_message(analyzed_matches))
  /\ pc' = "done"
  /\ UNCHANGED <<ODDS_API_KEY, TENNIS_API_KEY, all_matches, unique_matches,
                 analyzed_matches, argvars, loadvars, tablevars>>

Next ==
  \/ CheckConfiguration
  \/ FetchOdds
  \/ FetchTennis
  \/ Deduplicate
  \/ Calculate
  \/ FormatAndSend

Spec == Init /\ [][Next]_vars

\* the de-duplication loop has run
Deduplicated == pc \in {"calculate", "format"} \/ (pc = "done" /\ sent[1].kind # "configuration_error")

\* calculate_elo_differences has returned
Calculated == pc = "format" \/ (pc = "done" /\ sent[1].kind \in {"analysis_error", "ranking"})

\* the de-duplication key: unordered pair of normalized names, and tour
PairKey(match) ==
  <<{normalize_player_name(match.player1), normalize_player_name(match.player2)}, match.tour>>

StrictlyIncreasing(f) == \A i, j \in DOMAIN f : i < j => f[i] < f[j]

\* C1: the de-duplicated list is a subsequence of the fetched list, no two
\* of its matches have the same tour and the same unordered pair of
\* normalized names, and every dropped match has an earlier surviving
\* match with its key.
C1_DedupFirstWins ==
  Deduplicated =>
    /\ \A i, j \in 1..Len(unique_matches) :
         PairKey(unique_matches[i]) = PairKey(unique_matches[j]) => i = j
    /\ \E f \in [1..Len(unique_matches) -> 1..Len(all_matches)] :
         /\ StrictlyIncreasing(f)
         /\ \A i \in 1..Len(unique_matches) : unique_matches[i] = all_matches[f[i]]
         /\ \A k \in 1..Len(all_matches) :
              (\A i \in 1..Len(unique_matches) : f[i] # k) =>
                \E i \in 1..Len(unique_matches) :
                  f[i] < k /\ PairKey(all_matches[f[i]]) = PairKey(all_matches[k])

\* A vs B on one tour, then B vs A on the same tour and A vs B on the
\* other tour: the first and the third survive
C1_Witness ==
  /\ Deduplicated
  /\ Len(all_matches) = 3 /\ Len(unique_matches) = 2
  /\ all_matches[1].player1 = Nadal /\ all_matches[1].player2 = Lee
  /\ all_matches[2].player1 = Lee /\ all_matches[2].player2 = nadal_dot
  /\ all_matches[2].tour = all_matches[1].tour
  /\ all_matches[3].player1 = Nadal /\ all_matches[3].player2 = Lee
  /\ all_matches[3].tour # all_matches[1].tour
  /\ unique_matches = <<all_matches[1], all_matches[3]>>

\* the position in unique_matches of the match an analysis was made from
\* (after de-duplication player1, player2 and tour identify a match)
SourceIndex(a) ==
  CHOOSE k \in 1..Len(unique_matches) :
    /\ unique_matches[k].player1 = a.player1
    /\ unique_matches[k].player2 = a.player2
    /\ unique_matches[k].tour = a.tour

\* C5: the analysed matches are in descending order of elo_difference, and
\* two of them with equal elo_difference are in the order of their matches
\* in the de-duplicated input.
C5_SortedStable ==
  Calculated =>
    \A i, j \in 1..Len(analyzed_matches) :
      i < j =>
        /\ analyzed_matches[i].elo_difference >= analyzed_matches[j].elo_difference
        /\ (analyzed_matches[i].elo_difference = analyzed_matches[j].elo_difference =>
              SourceIndex(analyzed_matches[i]) < SourceIndex(analyzed_matches[j]))

\* three matches ranked: the last input comes first, and two matches of
\* equal difference follow in input order
C5_Witness ==
  /\ Calculated
  /\ Len(analyzed_matches) = 3
  /\ SourceIndex(analyzed_matches[1]) = 3
  /\ analyzed_matches[1].elo_difference > analyzed_matches[2].elo_difference
  /\ analyzed_matches[2].elo_difference = analyzed_matches[3].elo_difference
  /\ SourceIndex(analyzed_matches[2]) = 1
  /\ SourceIndex(analyzed_matches[3]) = 2

\* C6: every analysed match carries the surface of its tournament, the
\* ratings of its two players on that surface from the table of its tour,
\* and their absolute difference, which is never negative.
C6_Annotation ==
  Calculated =>
    \A i \in 1..Len(analyzed_matches) :
      LET a == analyzed_matches[i]
          m == unique_matches[SourceIndex(a)]
          table == IF Upper(m.tour) = ATP THEN atp_elo ELSE wta_elo
          hi == IF a.player1_elo >= a.player2_elo THEN a.player1_elo ELSE a.player2_elo
          lo == IF a.player1_elo >= a.player2_elo THEN a.player2_elo ELSE a.player1_elo
      IN /\ a.surface = get_surface_from_tournament(m.tournament)
         /\ a.player1_elo = find_player_elo(m.player1, m.tour, atp_elo, wta_elo)[a.surface]
         /\ a.player2_elo = find_player_elo(m.player2, m.tour, atp_elo, wta_elo)[a.surface]
         /\ a.elo_difference = hi - lo
         /\ a.elo_difference >= 0
         /\ (m.player1 = Nadal /\ m.tournament = Rome /\ m.tour = ATP =>
               a.surface = "clay" /\ a.player1_elo = 1700)
         /\ (m.player2 = Lee /\ m.tournament = Rome /\ m.tour = ATP =>
               a.player2_elo = 1950)

\* Nadal (clay 1700) against Lee (clay 1950) in Rome on the ATP tour
C6_Witness ==
  /\ Calculated
  /\ \E i \in 1..Len(analyzed_matches) :
       /\ analyzed_matches[i].player1 = Nadal /\ analyzed_matches[i].player2 = Lee
       /\ analyzed_matches[i].tour = ATP
       /\ analyzed_matches[i].surface = "clay"
       /\ analyzed_matches[i].player1_elo = 1700
       /\ analyzed_matches[i].player2_elo = 1950
       /\ analyzed_matches[i].elo_difference = 250

\* a match with both names that the loop body handles without an exception
Processable(m) ==
  /\ m.player1 # <<>> /\ m.player2 # <<>>
  /\ m.tournament # NonStr

MadeFrom(a, m) ==
  a.player1 = m.player1 /\ a.player2 = m.player2 /\ a.tour = m.tour

\* C9: calculate_elo_differences returns a list holding exactly one
\* analysed match for each input match that has both names and is processed
\* without failure, wherever the other matches sit in the input.
C9_SkipsOnlyBadMatches ==
  Calculated =>
    /\ Len(analyzed_matches) =
         Cardinality({k \in 1..Len(unique_matches) : Processable(unique_matches[k])})
    /\ \A k \in 1..Len(unique_matches) :
         Cardinality({i \in 1..Len(analyzed_matches) :
                        MadeFrom(analyzed_matches[i], unique_matches[k])})
           = IF Processable(unique_matches[k]) THEN 1 ELSE 0

\* a failing match, then a match with a missing name, then a good match
C9_Witness ==
  /\ Calculated
  /\ Len(unique_matches) = 3
  /\ unique_matches[1].tournament = NonStr
  /\ unique_matches[2].player1 = <<>>
  /\ Processable(unique_matches[3])
  /\ Len(analyzed_matches) = 1
  /\ MadeFrom(analyzed_matches[1], unique_matches[3])

\* the ranking message has been sent
RankingSent == pc = "done" /\ sent[1].kind = "ranking"

\* C10: the tier of a match depends only on its difference d: d > 200 is
\* high (fire), 100 < d <= 200 medium-high (bolt), 50 < d <= 100 medium
\* (chart), d <= 50 low (scales); the entries of the message are in the
\* order of the ranking.
C10_Tiers ==
  RankingSent =>
    /\ Len(sent[1].entries) = Len(analyzed_matches)
    /\ \A i \in 1..Len(sent[1].entries) :
         LET e == sent[1].entries[i]
             d == analyzed_matches[i].elo_difference
         IN /\ e.elo_difference = d
            /\ {e.higher_elo_player, e.lower_elo_player} =
                 {analyzed_matches[i].player1, analyzed_matches[i].player2}
            /\ e.icon \in {"fire", "bolt", "chart", "scales"}
            /\ (e.icon = "fire") = (d > 200)
            /\ (e.icon = "bolt") = (100 < d /\ d <= 200)
            /\ (e.icon = "chart") = (50 < d /\ d <= 100)
            /\ (e.icon = "scales") = (d <= 50)

\* a ranking with the differences 200, 100 and 50
C10_Witness ==
  /\ RankingSent
  /\ Len(sent[1].entries) = 3
  /\ sent[1].entries[1].elo_difference = 200 /\ sent[1].entries[1].icon = "bolt"
  /\ sent[1].entries[2].elo_difference = 100 /\ sent[1].entries[2].icon = "chart"
  /\ sent[1].entries[3].elo_difference = 50 /\ sent[1].entries[3].icon = "scales"

\* the position of a step in run_daily_analysis
StepRank(p) ==
  CASE p = "run_start" -> 0
    [] p = "fetch_odds" -> 1
    [] p = "fetch_tennis" -> 2
    [] p = "dedup" -> 3
    [] p = "calculate" -> 4
    [] p = "format" -> 5
    [] p = "done" -> 6

IsPrefix(s, t) == Len(s) <= Len(t) /\ SubSeq(t, 1, Len(s)) = s

NoKeyConfigured == ~(ODDS_API_KEY \/ TENNIS_API_KEY)

\* the message of a finished run, by the first of the four paths that
\* applies
ExpectedMessage ==
  IF NoKeyConfigured THEN [kind |-> "configuration_error", entries |-> <<>>]
  ELSE IF unique_matches = <<>> THEN [kind |-> "no_match", entries |-> <<>>]
  ELSE IF analyzed_matches = <<>> THEN [kind |-> "analysis_error", entries |-> <<>>]
  ELSE format_telegram_message(analyzed_matches)

\* nothing is sent before the run ends, and a finished run has sent the one
\* message of its path
OneMessage ==
  /\ (pc # "done" => sent = <<>>)
  /\ (pc = "done" =>
        /\ sent = <<ExpectedMessage>>
        /\ (NoKeyConfigured => all_matches = <<>> /\ unique_matches = <<>>)
        /\ (unique_matches = <<>> => analyzed_matches = <<>>)
        /\ ~ENABLED Next)

\* every step moves forward; matches are collected from the odds source
\* first and from the tennis source next, each only when its key is
\* configured; deduplication reads the finished collection, the ranking
\* reads the deduplicated matches, and sending ends the run
StepOrder ==
  /\ StepRank(pc') > StepRank(pc)
  /\ (NoKeyConfigured => pc = "run_start" /\ pc' = "done")
  /\ (all_matches' # all_matches =>
        /\ unique_matches = <<>> /\ unique_matches' = <<>>
        /\ IsPrefix(all_matches, all_matches')
        /\ \/ /\ pc = "fetch_odds" /\ pc' = "fetch_tennis"
              /\ ODDS_API_KEY /\ all_matches = <<>>
              /\ \A i \in 1..Len(all_matches') : all_matches'[i] \in OddsMatches
           \/ /\ pc = "fetch_tennis" /\ pc' = "dedup"
              /\ TENNIS_API_KEY
              /\ \A i \in (Len(all_matches) + 1)..Len(all_matches') :
                    all_matches'[i] \in TennisMatches)
  /\ (unique_matches' # unique_matches =>
        /\ pc = "dedup" /\ pc' = "calculate"
        /\ analyzed_matches = <<>> /\ analyzed_matches' = <<>>)
  /\ (analyzed_matches' # analyzed_matches =>
        pc = "calculate" /\ pc' = "format" /\ unique_matches # <<>>)
  /\ (sent' # sent => pc' = "done")
  /\ (pc' = "done" => Len(sent') = Len(sent) + 1)

C15_WitnessNoMatch ==
  /\ pc = "done" /\ ODDS_API_KEY /\ ~TENNIS_API_KEY
  /\ unique_matches = <<>>
  /\ sent = <<[kind |-> "no_match", entries |-> <<>>]>>

====
